---- MODULE Spec2Model ----
(***************************************************************************)
(* Model of development/installer.py: the installer that validates a       *)
(* Frappe branch, initialises a bench with `bench init`, writes the global *)
(* bench configuration and creates a site with `bench new-site`.           *)
(*                                                                         *)
(* A Python str is a TLA+ string (\o is concatenation).  A run is one      *)
(* execution of the script: the command line and the file system it starts *)
(* from are chosen in Init, the answers of the outside world (GitHub, git, *)
(* bench init, os.listdir) are chosen where the code asks for them.        *)
(***************************************************************************)
EXTENDS Integers, Sequences, FiniteSets, TLC

VARIABLES
    pc,            \* position of the run in the script
    caller,        \* who called get_available_branches, "" outside it
    parse_error,   \* the command line is one argparse rejects
    args,          \* the parsed Options record (immutable once parsed)
    bench_exists,  \* os.path.exists(args.bench_name)
    apps_exists,   \* <bench>/apps is a directory
    apps,          \* the child names of <bench>/apps
    rest_result,   \* how the GitHub REST step of branch discovery ended
    git_result,    \* how the git ls-remote step of branch discovery ended
    branches,      \* the value get_available_branches returned
    http,          \* the HTTP GET requests issued, in order
    init_command,  \* the pieces appended to init_command, in order
    returncode,    \* the exit status of bench init, -1 if it was not run
    calls,         \* the subprocesses started, in order: [argv, cwd]
    out,           \* the cprint lines, in order: [level, text]
    uncaught,      \* the exception that ended the run, "" if none
    exit_code      \* the exit status of the process, -1 while it runs

vars == <<pc, caller, parse_error, args, bench_exists, apps_exists, apps,
          rest_result, git_result, branches, http, init_command, returncode,
          calls, out, uncaught, exit_code>>

-----------------------------------------------------------------------------
(* Bounds of the checked instance *)

\* longest branch list a discovery step answers with
MaxBranches == 2
\* most children <bench>/apps holds
MaxApps == 3

-----------------------------------------------------------------------------
(* Helpers on sequences and strings *)

Range(s) == {s[i] : i \in DOMAIN s}

\* the sequences over S of length at most n
RECURSIVE SeqsUpTo(_, _)
SeqsUpTo(S, n) ==
    IF n = 0 THEN {<<>>}
    ELSE LET shorter == SeqsUpTo(S, n - 1)
         IN  shorter \cup {Append(s, x) : s \in shorter, x \in S}

\* the orders in which the members of the finite set S can be listed
RECURSIVE Listings(_)
Listings(S) ==
    IF S = {} THEN {<<>>}
    ELSE UNION {{<<x>> \o l : l \in Listings(S \ {x})} : x \in S}

\* "".join(pieces)
RECURSIVE Concat(_)
Concat(pieces) ==
    IF pieces = <<>> THEN "" ELSE Head(pieces) \o Concat(Tail(pieces))

-----------------------------------------------------------------------------
(* cprint *)

RED == 1
GREEN == 2
YELLOW == 3

\* cprint(text, level=level): the line printed; a level outside 1..3 prints
\* nothing
cprint(text, level) ==
    IF level \in {RED, GREEN, YELLOW}
    THEN <<[level |-> level, text |-> text]>>
    ELSE <<>>

-----------------------------------------------------------------------------
(* The command line *)

GithubRepo == "https://github.com/sin-ev/backend"
GithubOwnerOnly == "https://github.com/sin-ev"
OtherHostRepo == "https://gitlab.com/sin-ev/backend"
Repos == {GithubRepo, GithubOwnerOnly, OtherHostRepo}

BranchNames == {"main", "version-12", "version-14"}
RequestedBranches == {"version-12", "does-not-exist"}
DbTypes == {"mariadb", "postgres", ""}

\* get_args_parser's defaults
DefaultArgs ==
    [apps_json      |-> "apps-example.json",
     bench_name     |-> "frappe-bench",
     site_name      |-> "development.localhost",
     frappe_repo    |-> GithubRepo,
     frappe_branch  |-> "version-12",
     py_version     |-> "",
     node_version   |-> "",
     verbose        |-> FALSE,
     admin_password |-> "123",
     db_type        |-> "postgres",
     list_branches  |-> FALSE]

\* the values of (py_version, node_version, verbose) the checked command
\* lines give: each option left out and given (an unset version is "", falsy
\* like None)
Toolchains == {<<"", "", FALSE>>, <<"3.11", "", FALSE>>, <<"", "18", TRUE>>,
               <<"3.11", "18", TRUE>>}

\* the Options records the checked command lines parse to
ArgSpace ==
    {[DefaultArgs EXCEPT !.frappe_repo = r, !.frappe_branch = b,
                         !.py_version = t[1], !.node_version = t[2],
                         !.verbose = t[3], !.db_type = d, !.list_branches = l] :
        r \in Repos, b \in RequestedBranches, t \in Toolchains,
        d \in DbTypes, l \in BOOLEAN}

-----------------------------------------------------------------------------
(* Branch discovery: get_available_branches *)

\* repo_url.startswith("https://github.com/")
IsGithubUrl(repo_url) == repo_url \in {GithubRepo, GithubOwnerOnly}

\* repo_url.replace("https://github.com/", "").split("/")
UrlParts(repo_url) ==
    CASE repo_url = GithubRepo      -> <<"sin-ev", "backend">>
      [] repo_url = GithubOwnerOnly -> <<"sin-ev">>
      [] OTHER                      -> <<repo_url>>

\* the REST step issues a request only for a GitHub URL with owner and repo
RestApplies(repo_url) == IsGithubUrl(repo_url) /\ Len(UrlParts(repo_url)) >= 2

ApiUrl(repo_url) ==
    "https://api.github.com/repos/" \o UrlParts(repo_url)[1] \o "/"
        \o UrlParts(repo_url)[2] \o "/branches"

\* the answers a discovery step can give: branch lists
BranchLists == SeqsUpTo(BranchNames, MaxBranches)

\* [branch["name"] for branch in response.json()]
JsonBranch(name) == [name |-> name]
BranchName(branch) == branch.name
RECURSIVE RestBranches(_)
RestBranches(json) ==
    IF json = <<>> THEN <<>>
    ELSE <<BranchName(Head(json))>> \o RestBranches(Tail(json))

\* the JSON array GitHub answers with for the branches bs
RECURSIVE JsonBranches(_)
JsonBranches(bs) ==
    IF bs = <<>> THEN <<>>
    ELSE <<JsonBranch(Head(bs))>> \o JsonBranches(Tail(bs))

\* one line of `git ls-remote --heads`, as line.split() sees it: the fields,
\* each the sequence of its pieces
HeadLine(name) == <<<<"0a1b2c3d">>, <<"refs/heads/", name>>>>

\* parts[1].replace('refs/heads/', ''): a ref is the sequence of its pieces
StripRefsHeads(ref) ==
    Concat(SelectSeq(ref, LAMBDA piece : piece # "refs/heads/"))

\* the loop over result.stdout.strip().split('\n'): a line is the sequence
\* of its whitespace-separated fields, the sha and the ref; a blank line has
\* none and a line of one field is skipped
RECURSIVE LsRemoteBranches(_)
LsRemoteBranches(lines) ==
    IF lines = <<>> THEN <<>>
    ELSE IF Len(Head(lines)) >= 2
         THEN <<StripRefsHeads(Head(lines)[2])>> \o LsRemoteBranches(Tail(lines))
         ELSE LsRemoteBranches(Tail(lines))


\* what `git ls-remote --heads` prints for the heads bs, plain or after a
\* line of one field and a blank line
RECURSIVE PlainStdout(_)
PlainStdout(bs) ==
    IF bs = <<>> THEN <<>> ELSE <<HeadLine(Head(bs))>> \o PlainStdout(Tail(bs))
NoisyStdout(bs) == <<<<<<"warning:">>>>, <<>>>> \o PlainStdout(bs)
Stdouts == {PlainStdout(bs) : bs \in BranchLists}
               \cup {NoisyStdout(bs) : bs \in BranchLists}

\* the ways the REST step can end once the request is issued, and the ones
\* that raise inside the try block
RestOutcomes == {"ok", "non_200", "network_error", "timeout", "malformed_json"}
RestRaises == {"network_error", "timeout", "malformed_json"}

\* the ways the git ls-remote step can end, and the ones that raise
GitOutcomes == {"ok", "nonzero_exit", "timeout", "os_error"}
GitRaises == {"timeout", "os_error"}

\* os.getcwd()
Cwd == "/workspace/development"

\* a subprocess as started: its argv, its working directory and the
\* PYENV_VERSION added to its environment ("" when the environment is the
\* parent's)
Call(argv, cwd, pyenv) == [argv |-> argv, cwd |-> cwd, pyenv |-> pyenv]

GitLsRemote(repo_url) ==
    Call(<<"git", "ls-remote", "--heads", repo_url>>, Cwd, "")

\* lines 35-47: the REST step
RestStep ==
    /\ pc = "rest"
    /\ \/ /\ ~RestApplies(args.frappe_repo)
          /\ rest_result' = "skipped"
          /\ pc' = "ls_remote"
          /\ UNCHANGED <<http, out, branches>>
       \/ /\ RestApplies(args.frappe_repo)
          /\ http' = Append(http, ApiUrl(args.frappe_repo))
          /\ \E outcome \in RestOutcomes :
                /\ rest_result' = outcome
                /\ \/ /\ outcome = "ok"
                      /\ \E bs \in BranchLists :
                            branches' = RestBranches(JsonBranches(bs))
                      /\ pc' = "return"
                      /\ out' = out
                   \/ /\ outcome = "non_200"
                      /\ pc' = "ls_remote"
                      /\ UNCHANGED <<out, branches>>
                   \/ /\ outcome \in RestRaises
                      /\ out' = out \o cprint("Warning: Could not fetch branches from "
                                    \o args.frappe_repo \o ": " \o outcome, YELLOW)
                      /\ pc' = "ls_remote"
                      /\ branches' = branches
    /\ UNCHANGED <<caller, parse_error, args, bench_exists, apps_exists, apps,
                   git_result, init_command, returncode, calls, uncaught,
                   exit_code>>

\* lines 49-69: the git ls-remote fallback
LsRemoteStep ==
    /\ pc = "ls_remote"
    /\ calls' = Append(calls, GitLsRemote(args.frappe_repo))
    /\ \E outcome \in GitOutcomes :
          /\ git_result' = outcome
          /\ \/ /\ outcome = "ok"
                /\ \E stdout \in Stdouts : branches' = LsRemoteBranches(stdout)
                /\ out' = out
             \/ /\ outcome = "nonzero_exit"
                /\ branches' = <<>>
                /\ out' = out
             \/ /\ outcome \in GitRaises
                /\ branches' = <<>>
                /\ out' = out \o cprint("Warning: Could not fetch branches using git ls-remote: "
                              \o outcome, YELLOW)
    /\ pc' = "return"
    /\ UNCHANGED <<caller, parse_error, args, bench_exists, apps_exists, apps,
                   rest_result, http, init_command, returncode, uncaught,
                   exit_code>>


-----------------------------------------------------------------------------
(* Branch validation and the two entry points *)

\* ', '.join(names)
RECURSIVE JoinComma(_)
JoinComma(names) ==
    IF names = <<>> THEN ""
    ELSE IF Len(names) = 1 THEN Head(names)
    ELSE Head(names) \o ", " \o JoinComma(Tail(names))

\* the place of a branch name in the order of str
BranchRank(name) ==
    CASE name = "main"       -> 1
      [] name = "version-12" -> 2
      [] name = "version-14" -> 3
      [] OTHER               -> 0

\* sorted(names)
RECURSIVE Insert(_, _)
Insert(name, sorted) ==
    IF sorted = <<>> THEN <<name>>
    ELSE IF BranchRank(name) <= BranchRank(Head(sorted))
         THEN <<name>> \o sorted
         ELSE <<Head(sorted)>> \o Insert(name, Tail(sorted))
RECURSIVE Sorted(_)
Sorted(names) ==
    IF names = <<>> THEN <<>> ELSE Insert(Head(names), Sorted(Tail(names)))

\* cprint of one line per member of names
RECURSIVE BranchLines(_)
BranchLines(names) ==
    IF names = <<>> THEN <<>>
    ELSE cprint("  - " \o Head(names), YELLOW) \o BranchLines(Tail(names))

\* faulty variant of BranchAccepted: the missing branch is reported but the
\* verdict stays True
AcceptAnyBranch(available_branches, branch) == TRUE

\* faulty variant of BranchAccepted: an empty discovery result rejects
RejectWhenEmpty(available_branches, branch) ==
    branch \in Range(available_branches)

\* validate_branch's verdict on the discovered branches (lines 77-86)
BranchAccepted(available_branches, branch) ==
    IF available_branches # <<>>
    THEN branch \in Range(available_branches)
    ELSE TRUE

\* what validate_branch prints (lines 81-85)
ValidateOutput(available_branches, branch, repo_url) ==
    IF available_branches # <<>>
    THEN IF branch \in Range(available_branches)
         THEN <<>>
         ELSE cprint("Error: Branch '" \o branch \o "' not found in repository "
                         \o repo_url, RED)
              \o cprint("Available branches: " \o JoinComma(available_branches),
                        YELLOW)
    ELSE cprint("Warning: Could not validate branch '" \o branch
                    \o "' - proceeding anyway", YELLOW)

\* the process ends: sys.exit status code, or 1 with a traceback when the
\* exception exc reaches the top
Exit(code, exc) ==
    /\ pc' = "exited"
    /\ exit_code' = code
    /\ uncaught' = exc

\* lines 332-338 and 346-347, main's lines 90-94: the arguments are parsed
\* and branch discovery is entered, for the listing or for the validation
Start ==
    /\ pc = "start"
    /\ \/ /\ parse_error
          /\ Exit(2, "")
          /\ UNCHANGED <<caller, out>>
       \/ /\ ~parse_error
          /\ args.list_branches
          /\ out' = out \o cprint("Fetching available branches from "
                                      \o args.frappe_repo \o "...", GREEN)
          /\ caller' = "list_branches"
          /\ pc' = "rest"
          /\ UNCHANGED <<uncaught, exit_code>>
       \/ /\ ~parse_error
          /\ ~args.list_branches
          /\ caller' = "validate_branch"
          /\ pc' = "rest"
          /\ UNCHANGED <<out, uncaught, exit_code>>
    /\ UNCHANGED <<parse_error, args, bench_exists, apps_exists, apps,
                   rest_result, git_result, branches, http, init_command,
                   returncode, calls>>

\* faulty variant of ListBranches: the `else:` of line 346 is lost, so main()
\* runs after the listing
ListBranchesThenMain ==
    /\ pc = "return"
    /\ caller = "list_branches"
    /\ \/ /\ branches # <<>>
          /\ out' = out \o cprint("Available branches:", GREEN)
                        \o BranchLines(Sorted(branches))
       \/ /\ branches = <<>>
          /\ out' = out \o cprint("Could not fetch branches. Please check the repository URL.",
                                  RED)
    /\ caller' = "validate_branch"
    /\ pc' = "rest"
    /\ UNCHANGED <<parse_error, args, bench_exists, apps_exists, apps,
                   rest_result, git_result, branches, http, init_command,
                   returncode, calls, uncaught, exit_code>>

\* lines 339-345: the branches are listed and the script ends
ListBranches ==
    /\ pc = "return"
    /\ caller = "list_branches"
    /\ \/ /\ branches # <<>>
          /\ out' = out \o cprint("Available branches:", GREEN)
                        \o BranchLines(Sorted(branches))
       \/ /\ branches = <<>>
          /\ out' = out \o cprint("Could not fetch branches. Please check the repository URL.",
                                  RED)
    /\ caller' = ""
    /\ Exit(0, "")
    /\ UNCHANGED <<parse_error, args, bench_exists, apps_exists, apps,
                   rest_result, git_result, branches, http, init_command,
                   returncode, calls>>

\* validate_branch from line 77 and main's lines 94-98: a rejected branch
\* ends main, an accepted one goes on to init_bench_if_not_exist
ValidateBranch ==
    /\ pc = "return"
    /\ caller = "validate_branch"
    /\ caller' = ""
    /\ \/ /\ BranchAccepted(branches, args.frappe_branch)
          /\ out' = out \o ValidateOutput(branches, args.frappe_branch,
                                          args.frappe_repo)
          /\ pc' = "init_bench"
          /\ UNCHANGED <<uncaught, exit_code>>
       \/ /\ ~BranchAccepted(branches, args.frappe_branch)
          /\ out' = out \o ValidateOutput(branches, args.frappe_branch,
                                          args.frappe_repo)
                        \o cprint("Please specify a valid branch using --frappe-branch",
                                  RED)
          /\ Exit(0, "")
    /\ UNCHANGED <<parse_error, args, bench_exists, apps_exists, apps,
                   rest_result, git_result, branches, http, init_command,
                   returncode, calls>>


-----------------------------------------------------------------------------
(* The bench initializer: init_bench_if_not_exist *)

\* os.path.join(os.getcwd(), args.bench_name)
BenchPath(a) == Cwd \o "/" \o a.bench_name

\* lines 200-211: the pieces init_command is concatenated from, in order
InitCommandPieces(a) ==
    (IF a.node_version # "" THEN <<"nvm use " \o a.node_version \o ";">> ELSE <<>>)
    \o (IF a.py_version # "" THEN <<"PYENV_VERSION=" \o a.py_version \o " ">> ELSE <<>>)
    \o <<"bench init ",
         "--skip-redis-config-generation ",
         IF a.verbose THEN "--verbose " ELSE " ",
         "--frappe-path=" \o a.frappe_repo \o " ",
         "--frappe-branch=" \o a.frappe_branch \o " ",
         "--apps_path=" \o a.apps_json \o " ",
         a.bench_name>>

\* lines 196-198 and 215-222: the interactive shell that runs init_command
BenchInitCall(a) ==
    Call(<<"/bin/bash", "-i", "-c", Concat(InitCommandPieces(a))>>, Cwd,
         a.py_version)

\* bench set-config with the given flag, key and value, run in the bench
SetConfig(a, flag, key, value) ==
    Call(<<"bench", "set-config", flag, key, value>>, BenchPath(a), "")

\* faulty variant of ConfigWrites: redis_queue is written before redis_cache
ConfigWritesReordered(a) ==
    (IF a.db_type # "" THEN <<SetConfig(a, "-g", "db_type", a.db_type)>> ELSE <<>>)
    \o <<SetConfig(a, "-g", "redis_queue", "redis://redis-queue:6379"),
         SetConfig(a, "-g", "redis_cache", "redis://redis-cache:6379"),
         SetConfig(a, "-g", "redis_socketio", "redis://redis-queue:6379"),
         SetConfig(a, "-gp", "developer_mode", "1")>>

\* lines 234-281: the global config writes after a successful bench init
ConfigWrites(a) ==
    (IF a.db_type # "" THEN <<SetConfig(a, "-g", "db_type", a.db_type)>> ELSE <<>>)
    \o <<SetConfig(a, "-g", "redis_cache", "redis://redis-cache:6379"),
         SetConfig(a, "-g", "redis_queue", "redis://redis-queue:6379"),
         SetConfig(a, "-g", "redis_socketio", "redis://redis-queue:6379"),
         SetConfig(a, "-gp", "developer_mode", "1")>>

\* lines 232-277: what is printed along with the config writes
ConfigOutput(a) ==
    cprint("Configuring Bench ...", GREEN)
    \o cprint("Set db_host", YELLOW)
    \o (IF a.db_type # "" THEN cprint("Setting db_type to " \o a.db_type, YELLOW)
        ELSE <<>>)
    \o cprint("Set redis_cache to redis://redis-cache:6379", YELLOW)
    \o cprint("Set redis_queue to redis://redis-queue:6379", YELLOW)
    \o cprint("Set redis_socketio to redis://redis-queue:6379 for backward compatibility",
              YELLOW)
    \o cprint("Set developer_mode", YELLOW)

\* what a failing bench init writes to stderr
InvalidRemote == "git.exc.InvalidRemoteException: branch not found"
OtherFailure == "ERROR: could not resolve apps"
Stderrs == {InvalidRemote, OtherFailure}

\* lines 225-229: what is printed after a nonzero exit of bench init
InitFailureOutput(stderr) ==
    cprint("Error during bench initialization:", RED)
    \o cprint(stderr, RED)
    \o (IF stderr = InvalidRemote
        THEN cprint("This error usually means the specified branch doesn't exist.", RED)
             \o cprint("Use --list-branches to see available branches.", YELLOW)
        ELSE <<>>)

\* the names <bench>/apps can hold, and those sets of them the bound admits
AppNames == {"frappe", "erpnext", "hrms", "payments"}
AppSets == {S \in SUBSET AppNames : Cardinality(S) <= MaxApps}

\* what a failing bench init leaves behind
Leftovers == {"nothing", "bench_dir", "bench_dir_and_empty_apps"}

\* os.path.exists(path) in the working directory, where the bench directory
\* is the only entry the run depends on
Exists(path) == path = args.bench_name /\ bench_exists

\* the test of line 191 on the wrong option: the site name
SiteDirExists == Exists(args.site_name)

\* line 191: os.path.exists(args.bench_name)
BenchAlreadyExists == Exists(args.bench_name)

\* init_bench_if_not_exist (lines 190-283), called from main's line 98
InitBenchIfNotExist ==
    /\ pc = "init_bench"
    /\ \/ /\ BenchAlreadyExists
          /\ out' = out \o cprint("Bench already exists. Only site will be created",
                                  YELLOW)
          /\ UNCHANGED <<init_command, returncode, calls, bench_exists,
                         apps_exists, apps>>
       \/ /\ ~BenchAlreadyExists
          /\ init_command' = InitCommandPieces(args)
          /\ \E rc \in {0, 1} :
             /\ returncode' = rc
             /\ \/ /\ rc # 0
                   /\ calls' = Append(calls, BenchInitCall(args))
                   /\ \E stderr \in Stderrs :
                         out' = out \o cprint("Initializing bench with Frappe branch: "
                                                  \o args.frappe_branch, GREEN)
                                    \o InitFailureOutput(stderr)
                   /\ \E left \in Leftovers :
                         /\ bench_exists' = (left # "nothing")
                         /\ apps_exists' = (left = "bench_dir_and_empty_apps")
                   /\ apps' = {}
                \/ /\ rc = 0
                   /\ calls' = Append(calls, BenchInitCall(args)) \o ConfigWrites(args)
                   /\ out' = out \o cprint("Initializing bench with Frappe branch: "
                                               \o args.frappe_branch, GREEN)
                                 \o ConfigOutput(args)
                   /\ bench_exists' = TRUE
                   /\ apps_exists' = TRUE
                   /\ \E installed \in AppSets :
                         /\ "frappe" \in installed
                         /\ apps' = installed
    /\ pc' = "create_site"
    /\ UNCHANGED <<caller, parse_error, args, rest_result, git_result, branches,
                   http, uncaught, exit_code>>

-----------------------------------------------------------------------------
(* The site creator: create_site_in_bench *)

\* lines 289-292 and 306-309: the db_host write
DbHostWrite(a) ==
    IF a.db_type = "mariadb"
    THEN SetConfig(a, "-g", "db_host", "mariadb")
    ELSE SetConfig(a, "-g", "db_host", "postgresql")

\* faulty variant of NewSiteBase: the test is for "postgres" and everything
\* else gets the mariadb shape
NewSiteBaseByPostgres(a) ==
    IF a.db_type = "postgres"
    THEN <<"bench", "new-site",
           "--db-root-username=postgres",
           "--db-host=postgresql",
           "--db-type=" \o a.db_type,
           "--db-root-password=123",
           "--admin-password=" \o a.admin_password>>
    ELSE <<"bench", "new-site",
           "--db-root-username=root",
           "--db-host=mariadb",
           "--db-type=" \o a.db_type,
           "--mariadb-user-host-login-scope=%",
           "--db-root-password=123",
           "--admin-password=" \o a.admin_password>>

\* lines 293-302 and 310-318: new_site_cmd before the apps are added
NewSiteBase(a) ==
    IF a.db_type = "mariadb"
    THEN <<"bench", "new-site",
           "--db-root-username=root",
           "--db-host=mariadb",
           "--db-type=" \o a.db_type,
           "--mariadb-user-host-login-scope=%",
           "--db-root-password=123",
           "--admin-password=" \o a.admin_password>>
    ELSE <<"bench", "new-site",
           "--db-root-username=postgres",
           "--db-host=postgresql",
           "--db-type=" \o a.db_type,
           "--db-root-password=123",
           "--admin-password=" \o a.admin_password>>

\* faulty variant of Remove: nothing is dropped
RemoveNothing(list, x) == list

\* list.remove(x) on a list that holds x: the first x is dropped
RECURSIVE Remove(_, _)
Remove(list, x) ==
    IF list = <<>> THEN <<>>
    ELSE IF Head(list) = x THEN Tail(list)
    ELSE <<Head(list)>> \o Remove(Tail(list), x)

\* f"--install-app={app}"
InstallApp(app) == "--install-app=" \o app

\* lines 322-323: one flag per remaining app, in the order of the list
RECURSIVE InstallApps(_)
InstallApps(list) ==
    IF list = <<>> THEN <<>>
    ELSE <<InstallApp(Head(list))>> \o InstallApps(Tail(list))

\* lines 320-324: new_site_cmd as run, listing being os.listdir's answer
NewSiteCmd(a, listing) ==
    NewSiteBase(a) \o InstallApps(Remove(listing, "frappe")) \o <<a.site_name>>

NewSiteCall(a, listing) == Call(NewSiteCmd(a, listing), BenchPath(a), "")

\* create_site_in_bench (lines 286-329), called from main's line 99, and the
\* end of the script after it
CreateSiteInBench ==
    /\ pc = "create_site"
    /\ \/ /\ ~bench_exists
          \* subprocess.call cannot enter cwd: nothing is started
          /\ out' = out \o cprint("Set db_host", YELLOW)
          /\ calls' = calls
          /\ Exit(1, "FileNotFoundError")
       \/ /\ bench_exists
          /\ ~apps_exists
          \* os.listdir of a directory that is not there
          /\ out' = out \o cprint("Set db_host", YELLOW)
          /\ calls' = Append(calls, DbHostWrite(args))
          /\ Exit(1, "FileNotFoundError")
       \/ /\ bench_exists
          /\ apps_exists
          /\ "frappe" \notin apps
          \* apps.remove("frappe") of a list without it
          /\ out' = out \o cprint("Set db_host", YELLOW)
          /\ calls' = Append(calls, DbHostWrite(args))
          /\ Exit(1, "ValueError")
       \/ /\ bench_exists
          /\ apps_exists
          /\ "frappe" \in apps
          /\ out' = out \o cprint("Set db_host", YELLOW)
                        \o cprint("Creating Site " \o args.site_name \o " ...", GREEN)
          /\ \E listing \in Listings(apps) :
                calls' = calls \o <<DbHostWrite(args), NewSiteCall(args, listing)>>
          /\ Exit(0, "")
    /\ UNCHANGED <<caller, parse_error, args, bench_exists, apps_exists, apps,
                   rest_result, git_result, branches, http, init_command,
                   returncode>>

-----------------------------------------------------------------------------
(* The runs *)

Init ==
    /\ pc = "start"
    /\ caller = ""
    /\ parse_error \in BOOLEAN
    /\ args \in (IF parse_error THEN {DefaultArgs} ELSE ArgSpace)
    /\ bench_exists \in BOOLEAN
    /\ apps_exists \in (IF bench_exists THEN BOOLEAN ELSE {FALSE})
    /\ apps \in (IF apps_exists THEN AppSets ELSE {{}})
    /\ rest_result = "not_run"
    /\ git_result = "not_run"
    /\ branches = <<>>
    /\ http = <<>>
    /\ init_command = <<>>
    /\ returncode = -1
    /\ calls = <<>>
    /\ out = <<>>
    /\ uncaught = ""
    /\ exit_code = -1

Next ==
    \/ Start
    \/ RestStep
    \/ LsRemoteStep
    \/ ListBranches
    \/ ValidateBranch
    \/ InitBenchIfNotExist
    \/ CreateSiteInBench

Spec == Init /\ [][Next]_vars


-----------------------------------------------------------------------------
(* Vocabulary of the properties *)

IsBenchInit(c) == c.argv[1] = "/bin/bash"
IsSetConfig(c) == c.argv[1] = "bench" /\ c.argv[2] = "set-config"
IsNewSite(c) == c.argv[1] = "bench" /\ c.argv[2] = "new-site"
IsBench(c) == IsBenchInit(c) \/ IsSetConfig(c) \/ IsNewSite(c)

\* the key a set-config call writes
ConfigKey(c) == c.argv[4]
InitKeys == {"db_type", "redis_cache", "redis_queue", "redis_socketio",
             "developer_mode"}
IsInitWrite(c) == IsSetConfig(c) /\ ConfigKey(c) \in InitKeys
IsDbHostWrite(c) == IsSetConfig(c) /\ ConfigKey(c) = "db_host"

NoBenchCall == \A i \in DOMAIN calls : ~IsBench(calls[i])
Printed(level, text) ==
    \E i \in DOMAIN out : out[i].level = level /\ out[i].text = text

BenchExistedMessage ==
    Printed(YELLOW, "Bench already exists. Only site will be created")
InitializerRan == BenchExistedMessage \/ returncode # -1
RejectionPrinted ==
    Printed(RED, "Please specify a valid branch using --frappe-branch")

\* the run took main's path and validate_branch has returned
Validated == ~parse_error /\ ~args.list_branches /\ caller = "" /\ pc # "start"

\* `bench init` was started, with the requested branch in its command line
BenchInitStarted == \E i \in DOMAIN calls : IsBenchInit(calls[i])
BenchInitWithRequestedBranch ==
    /\ ("--frappe-branch=" \o args.frappe_branch \o " ") \in Range(init_command)
    /\ \E i \in DOMAIN calls :
          IsBenchInit(calls[i]) /\ calls[i].argv[4] = Concat(init_command)

-----------------------------------------------------------------------------
(* C1 *)

\* C1: in a run with list_branches set, neither the bench initializer nor
\* the site creator executes and no `bench init`, `bench set-config` or
\* `bench new-site` is ever started, whatever discovery returned.
C1_ListBranchesNeverInitializes ==
    (~parse_error /\ args.list_branches) =>
        /\ NoBenchCall
        /\ pc \notin {"init_bench", "create_site"}
        /\ ~InitializerRan
        /\ init_command = <<>>
        /\ pc = "exited" => (exit_code = 0 /\ caller = "")

\* a listing run that ended after discovery answered with branches
C1_Witness ==
    /\ ~parse_error /\ args.list_branches
    /\ pc = "exited"
    /\ branches # <<>>
    /\ Printed(GREEN, "Available branches:")

-----------------------------------------------------------------------------
(* C2 *)

\* discovery answered with branches and the requested one is not among them
BranchMissing ==
    /\ Validated
    /\ branches # <<>>
    /\ args.frappe_branch \notin Range(branches)

\* C2: when discovery returns a non-empty branch set without the requested
\* branch, the run ends with no `bench` subprocess (no init, no set-config,
\* no new-site) and the bench directory is not touched.
C2_RejectedBranchTouchesNothing ==
    /\ [](BranchMissing =>
            /\ pc = "exited"
            /\ exit_code = 0
            /\ NoBenchCall
            /\ ~InitializerRan
            /\ RejectionPrinted)
    /\ [][(BranchMissing \/ BranchMissing') =>
            UNCHANGED <<bench_exists, apps_exists, apps>>]_vars

\* a run on a fresh workspace rejected for a branch that is not there
C2_Witness ==
    /\ BranchMissing
    /\ pc = "exited"
    /\ ~bench_exists
    /\ Printed(YELLOW, "Available branches: " \o JoinComma(branches))

-----------------------------------------------------------------------------
(* C3 *)

\* C3: validate_branch accepts exactly when the discovered set is empty or
\* holds the candidate and rejects exactly when it is non-empty without it;
\* an empty discovery result never blocks the run: the bench initializer is
\* entered, and the `bench init` it starts (unless the bench is already
\* there) carries the branch the user gave.
C3_ValidateBranchPolicy ==
    Validated =>
        /\ RejectionPrinted <=>
               (branches # <<>> /\ args.frappe_branch \notin Range(branches))
        /\ RejectionPrinted => (pc = "exited" /\ ~InitializerRan /\ NoBenchCall)
        /\ ~RejectionPrinted => (pc = "init_bench" \/ InitializerRan)
        /\ (branches = <<>> /\ pc # "init_bench") =>
               /\ InitializerRan
               /\ BenchExistedMessage \/ BenchInitWithRequestedBranch
               /\ BenchInitStarted => BenchInitWithRequestedBranch

\* discovery came back empty and bench init was started with a branch no
\* repository of the model has
C3_Witness ==
    /\ Validated
    /\ branches = <<>>
    /\ args.frappe_branch = "does-not-exist"
    /\ BenchInitWithRequestedBranch


-----------------------------------------------------------------------------
(* C4 *)

\* C4: if the bench directory exists when the bench initializer runs, the
\* initializer starts neither `bench init` nor any of its set-config writes
\* and control passes directly to the site creator, which still runs.
C4_ExistingBenchSkipsInit ==
    /\ [][(pc = "init_bench" /\ bench_exists) =>
            /\ calls' = calls
            /\ init_command' = init_command
            /\ returncode' = returncode
            /\ UNCHANGED <<bench_exists, apps_exists, apps>>
            /\ pc' = "create_site"]_vars
    /\ [](BenchExistedMessage =>
            /\ ~BenchInitStarted
            /\ \A i \in DOMAIN calls : ~IsInitWrite(calls[i])
            /\ pc \in {"create_site", "exited"}
            /\ pc = "exited" => Printed(YELLOW, "Set db_host"))

\* a run on an existing bench that went on to create the site
C4_Witness ==
    /\ BenchExistedMessage
    /\ pc = "exited"
    /\ \E i \in DOMAIN calls : IsNewSite(calls[i])
    /\ ~BenchInitStarted

-----------------------------------------------------------------------------
(* C5 *)

\* `bench init` exited nonzero and left no bench directory
BenchInitFailedCleanly == returncode \notin {-1, 0} /\ ~bench_exists

\* C5: a run whose arguments parse ends with exit code 0, also after a
\* nonzero exit of `bench init`; in particular, after a nonzero `bench init`
\* exit with the bench directory still absent, the rest of the run raises
\* no uncaught error.
C5_ExitZeroAfterFailedInit ==
    (pc = "exited" /\ ~parse_error /\ BenchInitFailedCleanly) =>
        (exit_code = 0 /\ uncaught = "")

-----------------------------------------------------------------------------
(* C6 *)

\* the place of a key in the documented order of the initializer's writes
KeyRank(key) ==
    CASE key = "db_type"        -> 1
      [] key = "redis_cache"    -> 2
      [] key = "redis_queue"    -> 3
      [] key = "redis_socketio" -> 4
      [] key = "developer_mode" -> 5
      [] OTHER                  -> 0

\* C6: the initializer's config writes happen only after `bench init` exited
\* with status 0, in the order db_type, redis_cache, redis_queue,
\* redis_socketio, developer_mode, each at most once, all before the site
\* creator's db_host write, which precedes `bench new-site`; after a nonzero
\* exit none of the five is issued.
C6_ConfigWriteOrder ==
    /\ \A i \in DOMAIN calls :
          IsInitWrite(calls[i]) =>
              /\ returncode = 0
              /\ \E j \in 1..(i - 1) : IsBenchInit(calls[j])
    /\ \A i, j \in DOMAIN calls :
          (i < j /\ IsInitWrite(calls[i]) /\ IsInitWrite(calls[j])) =>
              KeyRank(ConfigKey(calls[i])) < KeyRank(ConfigKey(calls[j]))
    /\ \A i, j \in DOMAIN calls :
          (IsInitWrite(calls[i]) /\ IsDbHostWrite(calls[j])) => i < j
    /\ \A i, j \in DOMAIN calls :
          (IsDbHostWrite(calls[i]) /\ IsNewSite(calls[j])) => i < j
    /\ \A j \in DOMAIN calls :
          IsNewSite(calls[j]) => \E i \in 1..(j - 1) : IsDbHostWrite(calls[i])
    /\ returncode \notin {-1, 0} => \A i \in DOMAIN calls : ~IsInitWrite(calls[i])

\* a run where all five writes, the db_host write and new-site were issued
C6_Witness ==
    /\ pc = "exited"
    /\ returncode = 0
    /\ \A key \in InitKeys :
          \E i \in DOMAIN calls : IsInitWrite(calls[i]) /\ ConfigKey(calls[i]) = key
    /\ \E i \in DOMAIN calls : IsNewSite(calls[i])

-----------------------------------------------------------------------------
(* C7 *)

MariadbFlags == {"--db-host=mariadb", "--db-root-username=root",
                 "--mariadb-user-host-login-scope=%"}
PostgresFlags == {"--db-host=postgresql", "--db-root-username=postgres"}

\* C7: for db_type "mariadb" the site creator writes db_host = mariadb and
\* the new-site command has the mariadb flags and no postgres one; for any
\* other db_type it writes db_host = postgresql and the command has the
\* postgres flags and no mariadb one; one shape per run.
C7_SiteCommandShape ==
    /\ \A i \in DOMAIN calls :
          IsNewSite(calls[i]) =>
              IF args.db_type = "mariadb"
              THEN /\ MariadbFlags \subseteq Range(calls[i].argv)
                   /\ PostgresFlags \cap Range(calls[i].argv) = {}
              ELSE /\ PostgresFlags \subseteq Range(calls[i].argv)
                   /\ MariadbFlags \cap Range(calls[i].argv) = {}
    /\ \A i \in DOMAIN calls :
          IsDbHostWrite(calls[i]) =>
              /\ calls[i].argv[3] = "-g"
              /\ calls[i].argv[5] =
                     (IF args.db_type = "mariadb" THEN "mariadb" ELSE "postgresql")
    /\ Cardinality({i \in DOMAIN calls : IsNewSite(calls[i])}) <= 1
    /\ Cardinality({i \in DOMAIN calls : IsDbHostWrite(calls[i])}) <= 1
    /\ (pc = "exited" /\ exit_code = 0 /\ InitializerRan) =>
          /\ Cardinality({i \in DOMAIN calls : IsNewSite(calls[i])}) = 1
          /\ Cardinality({i \in DOMAIN calls : IsDbHostWrite(calls[i])}) = 1

\* a site created with a db_type that is neither mariadb nor postgres
C7_Witness ==
    /\ pc = "exited"
    /\ args.db_type = ""
    /\ \E i \in DOMAIN calls :
          IsNewSite(calls[i]) /\ "--db-host=postgresql" \in Range(calls[i].argv)

-----------------------------------------------------------------------------
(* C8 *)

\* how many arguments of the command are the --install-app flag of app
InstallCount(argv, app) ==
    Cardinality({k \in DOMAIN argv : argv[k] = "--install-app=" \o app})

\* C8: when <bench>/apps holds frappe, the --install-app flags of new-site
\* are exactly its child names except frappe, one flag each, and the site
\* name is the last argument; when frappe is absent the removal fails hard
\* and `bench new-site` is never started.
C8_InstallAppFlags ==
    /\ \A i \in DOMAIN calls :
          IsNewSite(calls[i]) =>
              LET argv == calls[i].argv
              IN  /\ "frappe" \in apps
                  /\ \A app \in AppNames :
                        InstallCount(argv, app) =
                            (IF app \in apps \ {"frappe"} THEN 1 ELSE 0)
                  /\ argv[Len(argv)] = args.site_name
                  /\ Cardinality({k \in DOMAIN argv :
                                     \E app \in AppNames :
                                        argv[k] = "--install-app=" \o app})
                         = Cardinality(apps) - 1
                  /\ \A k \in DOMAIN argv :
                        (\E app \in AppNames : argv[k] = "--install-app=" \o app)
                            => k < Len(argv)
    /\ (apps_exists /\ "frappe" \notin apps) =>
          /\ \A i \in DOMAIN calls : ~IsNewSite(calls[i])
          /\ (pc = "exited" /\ InitializerRan) =>
                 (uncaught = "ValueError" /\ exit_code # 0)

\* a site created in a bench with two apps besides frappe
C8_Witness ==
    /\ pc = "exited"
    /\ Cardinality(apps) >= 3
    /\ \E i \in DOMAIN calls :
          /\ IsNewSite(calls[i])
          /\ InstallCount(calls[i].argv, "erpnext") = 1
          /\ InstallCount(calls[i].argv, "frappe") = 0

-----------------------------------------------------------------------------
(* C9 *)

RestFailed ==
    rest_result \in {"skipped", "non_200", "network_error", "timeout",
                     "malformed_json"}
GitFailed == git_result \in {"nonzero_exit", "timeout", "os_error"}

RestWarned == \E i \in DOMAIN out :
    /\ out[i].level = YELLOW
    /\ \E cause \in RestOutcomes \cup {"skipped"} :
          out[i].text = "Warning: Could not fetch branches from "
                            \o args.frappe_repo \o ": " \o cause
GitWarned == \E i \in DOMAIN out :
    /\ out[i].level = YELLOW
    /\ \E cause \in GitOutcomes :
          out[i].text = "Warning: Could not fetch branches using git ls-remote: "
                            \o cause

\* C9: branch discovery never fails silently: every failure of the REST step
\* (non-GitHub URL, network error, non-200, malformed JSON, timeout) logs a
\* yellow warning before the fall through to git ls-remote, and every
\* failure of git ls-remote (exception, timeout, nonzero exit) logs a yellow
\* warning before the empty sequence is returned.
C9_DiscoveryNeverSilent ==
    /\ RestFailed => RestWarned
    /\ GitFailed => GitWarned

-----------------------------------------------------------------------------
(* C10 *)

\* C10: whenever `bench init` is started, the requested branch is a member
\* of a non-empty discovered branch set, or discovery failed: neither the
\* REST step nor git ls-remote answered.
C10_InitOnlyAfterCheckOrFailure ==
    BenchInitStarted =>
        \/ branches # <<>> /\ args.frappe_branch \in Range(branches)
        \/ rest_result # "ok" /\ git_result # "ok"

====
